---------------------------- MODULE Spec2Model ----------------------------
(***************************************************************************)
(* A model of GeneticNHL (src/genetic_algorithm.py): the roster loader,    *)
(* the lineup validator, the random generator, the crossover, the          *)
(* evolution loop and the CSV writer.                                      *)
(*                                                                         *)
(* Numbers.  Salaries are integers.  avePoints is a multiple of 0.002,     *)
(* held as an integer number of five-hundredths (5.204 is 2602); a         *)
(* projection is a decimal with two places, held as an integer number of   *)
(* hundredths.  A sum of such avePoints is a multiple of 0.002 and never   *)
(* lies half-way between two hundredths, so round(x, 2), which works on    *)
(* the binary float, gives the nearest hundredth for every value the       *)
(* model can hold; decimals with a 5 in the third place are not modelled.  *)
(*                                                                         *)
(* A lineup is a Python list whose first nine entries are player dicts     *)
(* and whose last two, once validated, are numbers.  An entry is modelled  *)
(* as a record: a player is its dict, a number n is [num |-> n].           *)
(***************************************************************************)
EXTENDS Integers, Sequences, FiniteSets, TLC

VARIABLES
    goalies, centers, wingers, defencemen, utils,   \* the five role lists
    num_lineups, duration,                          \* constructor arguments
    lineups,                                        \* the population
    pc,                                             \* position in the program
    candidate,        \* the local list 'lineup' before check_valid
    result,           \* what the call under study returned
    depth,            \* candidates the call under study has had rejected
    accepted,         \* the list a first, separate check_valid call returned
    lineup1, lineup2, \* the parents of mate_lineups
    positions,        \* mate_lineups' five local lists, as built
    new_lineups,      \* get_lineups' local: the three best of the batch
    rounds,           \* get_lineups calls done
    best_dropped,     \* highest score cut off by a truncation so far (-1: none)
    csv_lineups, csv_upload   \* rows written to the two files

vars == <<goalies, centers, wingers, defencemen, utils, num_lineups, duration,
          lineups, pc, candidate, result, depth, accepted, lineup1, lineup2,
          positions, new_lineups, rounds, best_dropped,
          csv_lineups, csv_upload>>

poolVars == <<goalies, centers, wingers, defencemen, utils>>

----------------------------------------------------------------------------
(* Program constants *)

SalaryCap == 50000
MinTeams == 3
LineupSize == 9
BatchSize == 10

(* Bounds of the exploration *)

MaxDuration == 2
MaxNumLineups == 2

(* Rounds of the evolution loop that are followed; the clock alone decides *)
(* how many the program runs                                               *)
MaxRounds == 2

(* Candidates one call of generate_lineup or mate_lineups can try before   *)
(* its recursion passes the interpreter's recursion limit (about 993 in    *)
(* CPython, one frame per rejected candidate)                              *)
MaxCandidates == 2

(* How many of the listed draws of generate_lineup and mate_lineups the    *)
(* evolution loop takes its random numbers from                            *)
MaxGenDraws == 6
MaxMateDraws == 3

----------------------------------------------------------------------------
(* Helpers *)

Range(s) == {s[i] : i \in 1..Len(s)}

Min(a, b) == IF a <= b THEN a ELSE b

RECURSIVE SumSeq(_)
SumSeq(s) == IF s = <<>> THEN 0 ELSE Head(s) + SumSeq(Tail(s))

Num(n) == [num |-> n]

IsPlayer(x) == "name" \in DOMAIN x

(* x[-1] and x[-2] of a Python list *)
Last(s) == s[Len(s)]
Score(l) == Last(l).num
Cost(l) == l[Len(l) - 1].num

(* round(x, 2) of x five-hundredths, in hundredths: five to a hundredth,   *)
(* remainders 1 and 2 go down, 3 and 4 go up                                *)
Round2(t) == (t + 2) \div 5

(* del position[i], i counted from 0 *)
DelAt(s, i) == SubSeq(s, 1, i) \o SubSeq(s, i + 2, Len(s))

(* list.sort(key=lambda x: x[-1], reverse=True): stable, descending.      *)
RECURSIVE InsertDesc(_, _)
InsertDesc(sorted, x) ==
    IF sorted = <<>> THEN <<x>>
    ELSE IF Score(Head(sorted)) >= Score(x)
         THEN <<Head(sorted)>> \o InsertDesc(Tail(sorted), x)
         ELSE <<x>> \o sorted

(* A sort that leaves the list as it is *)
SortNone(s) == s

RECURSIVE SortDesc(_)
SortDesc(s) ==
    IF s = <<>> THEN <<>>
    ELSE InsertDesc(SortDesc(SubSeq(s, 1, Len(s) - 1)), Last(s))

----------------------------------------------------------------------------
(* Rosters: the data rows of DKSalaries.csv                                *)

Skater(p) == <<p, "/", "U", "T", "I", "L">>

Row(n, rp, s, t, a) ==
    [name |-> n, rosterPosition |-> rp, salary |-> s, team |-> t, ave |-> a]

(* Four centers, three wingers, two defencemen, two goalies and one        *)
(* inactive winger; three teams.                                           *)
RosterA ==
    << Row("c1", Skater("C"), 8000, "T1", 2602),
       Row("g1", <<"G">>,     5000, "T3", 2500),
       Row("c2", Skater("C"), 6000, "T2", 2050),
       Row("w1", Skater("W"), 7000, "T1", 2300),
       Row("c3", Skater("C"), 5000, "T3", 1650),
       Row("w0", Skater("W"), 3000, "T3", 0),
       Row("w2", Skater("W"), 5000, "T2", 1750),
       Row("d1", Skater("D"), 5000, "T1", 1500),
       Row("w3", Skater("W"), 4000, "T1", 1400),
       Row("g2", <<"G">>,     6000, "T1", 2800),
       Row("d2", Skater("D"), 4000, "T2", 1200),
       Row("c4", Skater("C"), 3000, "T2", 901) >>

(* RosterA without the second goalie *)
RosterM == SelectSeq(RosterA, LAMBDA r : r.name # "g2")

(* Three players in every role, all of one team *)
RosterOneTeam ==
    << Row("c1", Skater("C"), 1000, "T1", 2600),
       Row("c2", Skater("C"), 1000, "T1", 2050),
       Row("c3", Skater("C"), 1000, "T1", 1650),
       Row("w1", Skater("W"), 1000, "T1", 2300),
       Row("w2", Skater("W"), 1000, "T1", 1750),
       Row("w3", Skater("W"), 1000, "T1", 1400),
       Row("d1", Skater("D"), 1000, "T1", 1500),
       Row("d2", Skater("D"), 1000, "T1", 1200),
       Row("d3", Skater("D"), 1000, "T1", 1000),
       Row("g1", <<"G">>,     1000, "T1", 2500),
       Row("g2", <<"G">>,     1000, "T1", 2800),
       Row("g3", <<"G">>,     1000, "T1", 2000) >>

(* One player per role, one team, salary 1000 each *)
RosterOnePerRole ==
    << Row("c1", Skater("C"), 1000, "T1", 2600),
       Row("w1", Skater("W"), 1000, "T1", 2300),
       Row("d1", Skater("D"), 1000, "T1", 1500),
       Row("g1", <<"G">>,     1000, "T1", 2500) >>

(* Three teams, three players in every role, a valid lineup exists *)
RosterB ==
    << Row("c1", Skater("C"), 8000, "T1", 2602),
       Row("c2", Skater("C"), 6000, "T2", 2050),
       Row("c3", Skater("C"), 5000, "T3", 1650),
       Row("w1", Skater("W"), 7000, "T1", 2300),
       Row("w2", Skater("W"), 5000, "T2", 1750),
       Row("w3", Skater("W"), 4000, "T1", 1400),
       Row("d1", Skater("D"), 5000, "T1", 1500),
       Row("d2", Skater("D"), 4000, "T2", 1200),
       Row("d3", Skater("D"), 9000, "T3", 3000),
       Row("g1", <<"G">>,     5000, "T3", 2500),
       Row("g2", <<"G">>,     6000, "T1", 2800),
       Row("g3", <<"G">>,     9000, "T2", 3200) >>

----------------------------------------------------------------------------
(* load_roster *)

Player(row) ==
    [name       |-> row.name,
     position   |-> Head(row.rosterPosition),
     salary     |-> row.salary,
     teamAbbrev |-> row.team,
     avePoints  |-> row.ave]

Active(rows) == SelectSeq(rows, LAMBDA r : r.ave # 0)

RECURSIVE MapPlayer(_)
MapPlayer(rows) ==
    IF rows = <<>> THEN <<>> ELSE <<Player(Head(rows))>> \o MapPlayer(Tail(rows))

OfPosition(players, p) == SelectSeq(players, LAMBDA x : x.position = p)

load_roster(rows) ==
    LET players == MapPlayer(Active(rows))
    IN  [goalies    |-> OfPosition(players, "G"),
         centers    |-> OfPosition(players, "C"),
         wingers    |-> OfPosition(players, "W"),
         defencemen |-> OfPosition(players, "D"),
         utils      |-> SelectSeq(players, LAMBDA x : x.position # "G")]

Loaded(rows) ==
    LET r == load_roster(rows)
    IN  /\ goalies = r.goalies
        /\ centers = r.centers
        /\ wingers = r.wingers
        /\ defencemen = r.defencemen
        /\ utils = r.utils

----------------------------------------------------------------------------
(* check_valid *)

Projection(l) == Round2(SumSeq([i \in 1..Len(l) |-> l[i].avePoints]))
Salary(l) == SumSeq([i \in 1..Len(l) |-> l[i].salary])
Teams(l) == {l[i].teamAbbrev : i \in 1..Len(l)}
NumPlayers(l) == Cardinality({l[i].name : i \in 1..Len(l)})

(* The salary test with the cap itself allowed *)
SalaryOkInclusive(salary) == salary <= SalaryCap

SalaryOk(salary) == salary < SalaryCap
TeamsOk(teams) == Cardinality(teams) >= MinTeams
PlayersOk(n) == n = LineupSize

(* A validator that reads the player entries only and so takes a list     *)
(* that already carries its two numbers                                    *)
check_validPlayersOnly(l) ==
    LET p == SelectSeq(l, IsPlayer)
    IN  IF Salary(p) < SalaryCap /\ Cardinality(Teams(p)) >= MinTeams
           /\ NumPlayers(p) = LineupSize
        THEN [ret |-> "lineup",
              lineup |-> l \o <<Num(Salary(p)), Num(Projection(p))>>]
        ELSE [ret |-> "False"]

(* The call raises TypeError on an entry that is a number, returns False   *)
(* on a candidate that breaks a rule, and otherwise returns the list with  *)
(* salary and projection appended.                                         *)
check_valid(l) ==
    IF \E i \in 1..Len(l) : ~IsPlayer(l[i])
    THEN [ret |-> "TypeError"]
    ELSE IF SalaryOk(Salary(l)) /\ TeamsOk(Teams(l)) /\ PlayersOk(NumPlayers(l))
         THEN [ret |-> "lineup",
               lineup |-> l \o <<Num(Salary(l)), Num(Projection(l))>>]
         ELSE [ret |-> "False"]

Accepted(l) == check_valid(l).ret = "lineup"


NoResult == [ret |-> "none"]

(* Values of the variables a specification does not use *)
IdleRun ==
    /\ num_lineups = 0 /\ duration = 0 /\ lineups = <<>> /\ new_lineups = <<>>
    /\ rounds = 0 /\ best_dropped = -1
    /\ csv_lineups = <<>> /\ csv_upload = <<>>

IdleMate == lineup1 = <<>> /\ lineup2 = <<>> /\ positions = <<>>
NoCall == accepted = <<>>

runVars == <<num_lineups, duration, lineups, new_lineups, rounds,
             best_dropped, csv_lineups, csv_upload>>
mateVars == <<lineup1, lineup2, positions>>

----------------------------------------------------------------------------
(* generate_lineup *)

(* random.randint(0, len(s) - 1) *)
RandIndex(s) == 0 .. Len(s) - 1

(* The nine appends, for nine drawn indices d[1..9] *)
GenCandidate(d) ==
    << centers[d[1] + 1], centers[d[2] + 1],
       wingers[d[3] + 1], wingers[d[4] + 1], wingers[d[5] + 1],
       defencemen[d[6] + 1], defencemen[d[7] + 1],
       goalies[d[8] + 1],
       utils[d[9] + 1] >>

(* Lines 125-134: a fresh list of nine independent draws *)
GenDraw ==
    /\ pc = "generate_lineup"
    /\ \E i1 \in RandIndex(centers), i2 \in RandIndex(centers),
          i3 \in RandIndex(wingers), i4 \in RandIndex(wingers),
          i5 \in RandIndex(wingers),
          i6 \in RandIndex(defencemen), i7 \in RandIndex(defencemen),
          i8 \in RandIndex(goalies), i9 \in RandIndex(utils) :
            candidate' = GenCandidate(<<i1, i2, i3, i4, i5, i6, i7, i8, i9>>)
    /\ pc' = "generate_check"
    /\ UNCHANGED <<poolVars, runVars, mateVars, accepted, result, depth>>

(* Lines 137-139: check_valid extends the list in place and it is returned *)
GenAccept ==
    /\ pc = "generate_check"
    /\ Accepted(candidate)
    /\ candidate' = check_valid(candidate).lineup
    /\ result' = check_valid(candidate)
    /\ pc' = "generate_returned"
    /\ UNCHANGED <<poolVars, runVars, mateVars, accepted, depth>>

(* Lines 140-142: the call recurses (the inner call begins with a fresh   *)
(* empty list) and returns what the inner call returns                    *)
GenReject ==
    /\ pc = "generate_check"
    /\ ~Accepted(candidate)
    /\ depth + 1 < MaxCandidates
    /\ depth' = depth + 1
    /\ candidate' = <<>>
    /\ pc' = "generate_lineup"
    /\ UNCHANGED <<poolVars, runVars, mateVars, accepted, result>>

(* Line 142 once the frames have run out: RecursionError leaves every      *)
(* frame of the call, nothing is returned                                  *)
GenRecursionError ==
    /\ pc = "generate_check"
    /\ ~Accepted(candidate)
    /\ depth + 1 = MaxCandidates
    /\ depth' = depth + 1
    /\ candidate' = <<>>
    /\ pc' = "RecursionError"
    /\ UNCHANGED <<poolVars, runVars, mateVars, accepted, result>>

GenRosters == {RosterB, RosterOneTeam, RosterOnePerRole}

InitGen ==
    /\ \E r \in GenRosters : Loaded(r)
    /\ IdleRun /\ IdleMate /\ NoCall
    /\ pc = "generate_lineup"
    /\ candidate = <<>>
    /\ result = NoResult
    /\ depth = 0

NextGen == GenDraw \/ GenAccept \/ GenReject \/ GenRecursionError

SpecGen == InitGen /\ [][NextGen]_vars

(* The nine indices one attempt can draw *)
Draws ==
    RandIndex(centers) \X RandIndex(centers) \X RandIndex(wingers)
      \X RandIndex(wingers) \X RandIndex(wingers) \X RandIndex(defencemen)
      \X RandIndex(defencemen) \X RandIndex(goalies) \X RandIndex(utils)

----------------------------------------------------------------------------
(* check_valid called on its own: once on a candidate, then again on what  *)
(* it returned, or on the nine players of what it returned.  An accepted   *)
(* list is extended in place (line 165): the list passed is the list       *)
(* returned.                                                               *)

ValidFirst ==
    /\ pc = "check_valid"
    /\ result' = check_valid(candidate)
    /\ accepted' = IF Accepted(candidate) THEN check_valid(candidate).lineup
                   ELSE <<>>
    /\ candidate' = IF Accepted(candidate) THEN check_valid(candidate).lineup
                    ELSE candidate
    /\ pc' = IF Accepted(candidate) THEN "check_again" ELSE "rejected"
    /\ UNCHANGED <<poolVars, runVars, mateVars, depth>>

(* check_valid(returned): line 153 raises before line 165 is reached *)
ValidAgainReturned ==
    /\ pc = "check_again"
    /\ candidate' = accepted
    /\ result' = check_valid(accepted)
    /\ pc' = "checked_returned"
    /\ UNCHANGED <<poolVars, runVars, mateVars, accepted, depth>>

(* check_valid(returned[:9]): the slice is a new list, extended in turn *)
ValidAgainPlayers ==
    /\ pc = "check_again"
    /\ candidate' = IF Accepted(SubSeq(accepted, 1, LineupSize))
                    THEN check_valid(SubSeq(accepted, 1, LineupSize)).lineup
                    ELSE SubSeq(accepted, 1, LineupSize)
    /\ result' = check_valid(SubSeq(accepted, 1, LineupSize))
    /\ pc' = "checked_players"
    /\ UNCHANGED <<poolVars, runVars, mateVars, accepted, depth>>

InitValid ==
    /\ Loaded(RosterA)
    /\ IdleRun /\ IdleMate /\ NoCall
    /\ pc = "check_valid"
    /\ candidate \in
         {GenCandidate(<<i1, i2, i3, i4, i5, i6, i7, i8, i9>>) :
            i1 \in {0, 1}, i2 \in RandIndex(centers),
            i3 \in {0}, i4 \in {0, 1}, i5 \in RandIndex(wingers),
            i6 \in {0}, i7 \in RandIndex(defencemen),
            i8 \in RandIndex(goalies), i9 \in RandIndex(utils)}
    /\ result = NoResult
    /\ depth = 0

NextValid == ValidFirst \/ ValidAgainReturned \/ ValidAgainPlayers

SpecValid == InitValid /\ [][NextValid]_vars


----------------------------------------------------------------------------
(* mate_lineups *)

(* Lines 83-92: the five lists, for five drawn indices e[1..5] *)
(* The lists with a second extra center, the next one of the pool *)
MatePositionsTwoExtra(l1, l2, e) ==
    [centers    |-> <<l1[1], l1[2], l2[1], l2[2], centers[e[1] + 1],
                      centers[((e[1] + 1) % Len(centers)) + 1]>>,
     wingers    |-> <<l1[3], l1[4], l1[5], l2[3], l2[4], l2[5],
                      wingers[e[2] + 1]>>,
     defencemen |-> <<l1[6], l1[7], l2[6], l2[7], defencemen[e[3] + 1]>>,
     goalies    |-> <<l1[8], l2[8], goalies[e[4] + 1]>>,
     utils      |-> <<l1[9], l2[9], utils[e[5] + 1]>>]

MatePositions(l1, l2, e) ==
    [centers    |-> <<l1[1], l1[2], l2[1], l2[2], centers[e[1] + 1]>>,
     wingers    |-> <<l1[3], l1[4], l1[5], l2[3], l2[4], l2[5],
                      wingers[e[2] + 1]>>,
     defencemen |-> <<l1[6], l1[7], l2[6], l2[7], defencemen[e[3] + 1]>>,
     goalies    |-> <<l1[8], l2[8], goalies[e[4] + 1]>>,
     utils      |-> <<l1[9], l2[9], utils[e[5] + 1]>>]

(* grab_players without line 100: the drawn entry stays in the list *)
RECURSIVE grab_playersKeep(_, _)
grab_playersKeep(position, idx) ==
    IF idx = <<>> THEN <<>>
    ELSE <<position[Head(idx) + 1]>> \o grab_playersKeep(position, Tail(idx))

(* Lines 95-101, for the drawn indices idx[1..n]: each draw is made in the *)
(* list as the earlier deletions left it.                                  *)
RECURSIVE grab_players(_, _)
grab_players(position, idx) ==
    IF idx = <<>> THEN <<>>
    ELSE <<position[Head(idx) + 1]>>
         \o grab_players(DelAt(position, Head(idx)), Tail(idx))

(* The index sequences n successive randint(0, len(position) - 1) can give *)
GrabIndices(len, n) ==
    {s \in [1..n -> 0 .. len - 1] : \A k \in 1..n : s[k] <= len - k}

(* What grab_players(position, n) can return *)
GrabSet(position, n) ==
    {grab_players(position, s) : s \in GrabIndices(Len(position), n)}

(* The extends of lines 104-105 in the other order *)
MateLineupWingersFirst(c, w, d, g, u) == w \o c \o d \o g \o u

(* Lines 104-109 *)
MateLineup(c, w, d, g, u) == c \o w \o d \o g \o u

(* One attempt, for the extra draws e[1..5] and the grab draws g[1..9] *)
MateCandidate(l1, l2, e, g) ==
    LET pos == MatePositions(l1, l2, e)
    IN  MateLineup(grab_players(pos.centers, SubSeq(g, 1, 2)),
                   grab_players(pos.wingers, SubSeq(g, 3, 5)),
                   grab_players(pos.defencemen, SubSeq(g, 6, 7)),
                   grab_players(pos.goalies, SubSeq(g, 8, 8)),
                   grab_players(pos.utils, SubSeq(g, 9, 9)))

MateBuild ==
    /\ pc = "mate_lineups"
    /\ \E e1 \in RandIndex(centers), e2 \in RandIndex(wingers),
          e3 \in RandIndex(defencemen), e4 \in RandIndex(goalies),
          e5 \in RandIndex(utils) :
            positions' = MatePositions(lineup1, lineup2, <<e1, e2, e3, e4, e5>>)
    /\ pc' = "mate_grab"
    /\ UNCHANGED <<poolVars, runVars, accepted, lineup1, lineup2, candidate, result, depth>>

(* The five grab_players calls.  The lists are not read again afterwards   *)
(* and the model drops them here.                                          *)
MateGrab ==
    /\ pc = "mate_grab"
    /\ \E c \in GrabSet(positions.centers, 2),
          w \in GrabSet(positions.wingers, 3),
          d \in GrabSet(positions.defencemen, 2),
          g \in GrabSet(positions.goalies, 1),
          u \in GrabSet(positions.utils, 1) :
            candidate' = MateLineup(c, w, d, g, u)
    /\ positions' = <<>>
    /\ pc' = "mate_check"
    /\ UNCHANGED <<poolVars, runVars, accepted, lineup1, lineup2, result, depth>>

(* Lines 112-116 *)
MateAccept ==
    /\ pc = "mate_check"
    /\ Accepted(candidate)
    /\ candidate' = check_valid(candidate).lineup
    /\ result' = check_valid(candidate)
    /\ pc' = "mate_returned"
    /\ UNCHANGED <<poolVars, runVars, mateVars, accepted, depth>>

MateReject ==
    /\ pc = "mate_check"
    /\ ~Accepted(candidate)
    /\ depth + 1 < MaxCandidates
    /\ depth' = depth + 1
    /\ candidate' = <<>>
    /\ pc' = "mate_lineups"
    /\ UNCHANGED <<poolVars, runVars, mateVars, accepted, result>>

(* Line 115 once the frames have run out *)
MateRecursionError ==
    /\ pc = "mate_check"
    /\ ~Accepted(candidate)
    /\ depth + 1 = MaxCandidates
    /\ depth' = depth + 1
    /\ candidate' = <<>>
    /\ pc' = "RecursionError"
    /\ UNCHANGED <<poolVars, runVars, mateVars, accepted, result>>

(* Draws of generate_lineup, of which the evolution loop uses the first    *)
(* MaxGenDraws: two that check_valid accepts, one rejected for each rule   *)
(* (salary exactly 50000 with the second goalie; two teams; a center       *)
(* twice; the first center again as utility; a winger twice).              *)
GenDrawList ==
    << <<0, 1, 0, 1, 2, 0, 1, 0, 3>>,
       <<1, 2, 0, 1, 2, 0, 1, 0, 8>>,
       <<0, 1, 0, 1, 2, 0, 1, 1, 3>>,
       <<0, 1, 0, 1, 2, 0, 1, 1, 8>>,
       <<0, 0, 0, 1, 2, 0, 1, 0, 3>>,
       <<0, 1, 0, 1, 2, 0, 1, 0, 0>>,
       <<0, 1, 1, 1, 2, 0, 1, 0, 3>> >>

GenDraws == {GenDrawList[i] : i \in 1..Min(MaxGenDraws, Len(GenDrawList))}

(* What generate_lineup can return when its draws come from D: the first   *)
(* candidate check_valid accepts, after fewer than MaxCandidates rejected  *)
(* ones.                                                                   *)
generate_lineup(D) ==
    {check_valid(GenCandidate(d)).lineup : d \in {x \in D : Accepted(GenCandidate(x))}}

(* generate_lineup can raise RecursionError when its draws come from D:    *)
(* MaxCandidates rejected candidates in a row, the draws being independent *)
generate_lineup_raises(D) == \E d \in D : ~Accepted(GenCandidate(d))

InitMate ==
    /\ Loaded(RosterM)
    /\ IdleRun /\ NoCall
    /\ lineup1 \in generate_lineup({GenDrawList[1], GenDrawList[2]})
    /\ lineup2 \in generate_lineup({GenDrawList[2]})
    /\ positions = <<>>
    /\ pc = "mate_lineups"
    /\ candidate = <<>>
    /\ result = NoResult
    /\ depth = 0

NextMate ==
    MateBuild \/ MateGrab \/ MateAccept \/ MateReject \/ MateRecursionError

SpecMate == InitMate /\ [][NextMate]_vars


----------------------------------------------------------------------------
(* run, get_lineups, save_file *)

(* Draws of one mate_lineups attempt, of which the evolution loop uses the *)
(* first MaxMateDraws: the five extra indices e and the nine grab indices  *)
(* g.  In turn: the first parent's players; the extra center and the extra *)
(* utility; the first center of each parent; the second parent's players;  *)
(* the first parent's with its centers swapped; the extra center, the      *)
(* extra winger and the extra goalie.                                      *)
MateDrawList ==
    << [e |-> <<0, 0, 0, 0, 0>>, g |-> <<0, 0, 0, 0, 0, 0, 0, 0, 0>>],
       [e |-> <<3, 0, 0, 0, 3>>, g |-> <<4, 0, 0, 0, 0, 0, 0, 0, 2>>],
       [e |-> <<0, 0, 0, 0, 0>>, g |-> <<0, 1, 0, 0, 0, 0, 0, 0, 0>>],
       [e |-> <<0, 0, 0, 0, 0>>, g |-> <<2, 2, 3, 3, 3, 2, 2, 1, 1>>],
       [e |-> <<0, 0, 0, 0, 0>>, g |-> <<1, 0, 0, 0, 0, 0, 0, 0, 0>>],
       [e |-> <<3, 1, 1, 1, 3>>, g |-> <<4, 0, 6, 0, 1, 4, 0, 2, 2>>] >>

MateDraws == {MateDrawList[i] : i \in 1..Min(MaxMateDraws, Len(MateDrawList))}

(* What mate_lineups(l1, l2) can return when its draws come from D *)
mate_lineups(l1, l2, D) ==
    {check_valid(MateCandidate(l1, l2, m.e, m.g)).lineup :
        m \in {x \in D : Accepted(MateCandidate(l1, l2, x.e, x.g))}}

(* mate_lineups(l1, l2) can raise RecursionError when its draws come from D *)
mate_lineups_raises(l1, l2, D) ==
    \E m \in D : ~Accepted(MateCandidate(l1, l2, m.e, m.g))

(* A loop without the slice of line 42 *)
TruncateNone(l, n) == l

(* self.lineups[:self.num_lineups], num_lineups >= 0 *)
Truncate(l, n) == SubSeq(l, 1, Min(n, Len(l)))

(* The entries the slice leaves out *)
CutOff(l, n) == SubSeq(l, Min(n, Len(l)) + 1, Len(l))

Max(a, b) == IF a >= b THEN a ELSE b

(* What a call of time.time() at line 39 can return, as ticks elapsed      *)
(* since the reading of line 38.  The wall clock is not the program's: a   *)
(* round can take less than a tick, the process can be suspended past the  *)
(* deadline before the first test, and the clock can be set back (-1).     *)
(* No reading is kept: line 39 compares it and drops it.                   *)
Readings == (-1) .. (MaxDuration + 1)

(* Line 39: time.time() < runtime, with runtime = (line 38) + duration *)
RunLoop ==
    /\ pc = "run"
    /\ \E t \in Readings :
         /\ t < duration => rounds < MaxRounds
         /\ pc' = IF t < duration THEN "get_lineups" ELSE "run_returned"
    /\ UNCHANGED <<poolVars, mateVars, accepted, num_lineups, duration, lineups,
                   new_lineups, rounds, best_dropped, csv_lineups,
                   csv_upload, candidate, result, depth>>

(* Lines 53-61: ten generate_lineup calls, the sort, the three appends.    *)
(* Of the sorted batch only the first three are read afterwards, and only  *)
(* they are kept.                                                          *)
GetBatch ==
    /\ pc = "get_lineups"
    /\ \E batch \in [1..BatchSize -> generate_lineup(GenDraws)] :
         LET sorted == SortDesc(batch)
         IN  /\ new_lineups' = SubSeq(sorted, 1, 3)
             /\ lineups' = lineups \o <<sorted[1], sorted[2], sorted[3]>>
    /\ pc' = "mate_1"
    /\ UNCHANGED <<poolVars, mateVars, accepted, num_lineups, duration, rounds,
                   best_dropped, csv_lineups, csv_upload, candidate, result,
                   depth>>

MateStep(at, a, b, next) ==
    /\ pc = at
    /\ \E child \in mate_lineups(new_lineups[a], new_lineups[b], MateDraws) :
         lineups' = Append(lineups, child)
    /\ pc' = next
    /\ UNCHANGED <<poolVars, mateVars, accepted, num_lineups, duration, new_lineups,
                   rounds, best_dropped, csv_lineups, csv_upload,
                   candidate, result, depth>>

(* Lines 64-66 *)
Mate1 == MateStep("mate_1", 1, 2, "mate_2")
Mate2 == MateStep("mate_2", 1, 3, "mate_3")
Mate3 == MateStep("mate_3", 2, 3, "fresh_1")

FreshStep(at, next) ==
    /\ pc = at
    /\ \E l \in generate_lineup(GenDraws) : lineups' = Append(lineups, l)
    /\ pc' = next
    /\ UNCHANGED <<poolVars, mateVars, accepted, num_lineups, duration, new_lineups,
                   rounds, best_dropped, csv_lineups, csv_upload,
                   candidate, result, depth>>

(* Lines 69-72 *)
Fresh1 == FreshStep("fresh_1", "fresh_2")
Fresh2 == FreshStep("fresh_2", "fresh_3")
Fresh3 == FreshStep("fresh_3", "fresh_4")
Fresh4 == FreshStep("fresh_4", "sort")

(* A generate_lineup or mate_lineups call of get_lineups raises            *)
(* RecursionError: it leaves get_lineups and run(), and the population     *)
(* keeps what the round had appended.                                      *)
RunRecursionError ==
    /\ CASE pc \in {"get_lineups", "fresh_1", "fresh_2", "fresh_3", "fresh_4"} ->
               generate_lineup_raises(GenDraws)
         [] pc = "mate_1" ->
               mate_lineups_raises(new_lineups[1], new_lineups[2], MateDraws)
         [] pc = "mate_2" ->
               mate_lineups_raises(new_lineups[1], new_lineups[3], MateDraws)
         [] pc = "mate_3" ->
               mate_lineups_raises(new_lineups[2], new_lineups[3], MateDraws)
         [] OTHER -> FALSE
    /\ pc' = "RecursionError"
    /\ UNCHANGED <<poolVars, mateVars, accepted, num_lineups, duration, lineups,
                   new_lineups, rounds, best_dropped, csv_lineups,
                   csv_upload, candidate, result, depth>>

(* Lines 41-42, inside the loop: the sort and the slice end every round.   *)
(* The clock is read again at the next test of line 39.                    *)
SortTruncate ==
    /\ pc = "sort"
    /\ LET sorted == SortDesc(lineups)
           cut == CutOff(sorted, num_lineups)
       IN  /\ lineups' = Truncate(sorted, num_lineups)
           /\ best_dropped' = IF cut = <<>> THEN best_dropped
                              ELSE Max(best_dropped, Score(Head(cut)))
    /\ rounds' = rounds + 1
    /\ new_lineups' = <<>>
    /\ pc' = "run"
    /\ UNCHANGED <<poolVars, mateVars, accepted, num_lineups, duration, csv_lineups,
                   csv_upload, candidate, result, depth>>

(* Line 217: player dicts become their names, the two numbers stay *)
NameRow(l) == [i \in 1..Len(l) |-> IF IsPlayer(l[i]) THEN l[i].name ELSE l[i]]

RECURSIVE NameRows(_)
NameRows(ls) ==
    IF ls = <<>> THEN <<>> ELSE <<NameRow(Head(ls))>> \o NameRows(Tail(ls))

(* Line 221: i runs over range(num_lineups - 1) and row i is kept when it  *)
(* differs from row i + 1.                                                 *)
RECURSIVE KeepFrom(_, _, _)
KeepFrom(rows, i, n) ==
    IF i > n - 1 THEN <<>>
    ELSE (IF rows[i] # rows[i + 1] THEN <<rows[i]>> ELSE <<>>)
         \o KeepFrom(rows, i + 1, n)

RemoveDuplicates(rows, n) == KeepFrom(rows, 1, n)

(* Line 221 reads rows[i + 1] for i up to num_lineups - 2 *)
IndexInRange(rows, n) == n - 1 <= 0 \/ n <= Len(rows)

RECURSIVE FirstNine(_)
FirstNine(rows) ==
    IF rows = <<>> THEN <<>>
    ELSE <<SubSeq(Head(rows), 1, LineupSize)>> \o FirstNine(Tail(rows))

(* Lines 217-237; the header rows are not modelled *)
SaveFile ==
    /\ pc = "run_returned"
    /\ IndexInRange(NameRows(lineups), num_lineups)
    /\ csv_lineups' = RemoveDuplicates(NameRows(lineups), num_lineups)
    /\ csv_upload' = FirstNine(RemoveDuplicates(NameRows(lineups), num_lineups))
    /\ pc' = "saved"
    /\ UNCHANGED <<poolVars, mateVars, accepted, num_lineups, duration, lineups,
                   new_lineups, rounds, best_dropped, candidate, result,
                   depth>>

(* Line 221 raises IndexError before either file is opened *)
SaveFileIndexError ==
    /\ pc = "run_returned"
    /\ ~IndexInRange(NameRows(lineups), num_lineups)
    /\ pc' = "IndexError"
    /\ UNCHANGED <<poolVars, mateVars, accepted, num_lineups, duration, lineups,
                   new_lineups, rounds, best_dropped, csv_lineups,
                   csv_upload, candidate, result, depth>>

(* GeneticNHL(num_lineups, duration): every num_lineups within the bound,  *)
(* with no time at all and with the longest duration.                      *)
Configs == {<<n, d>> : n \in 0..MaxNumLineups, d \in {0, MaxDuration}}

(* num_lineups above what a single round appends *)
LargeConfig == <<BatchSize + 2, 1>>

(* GeneticNHL(c[1], c[2]), load_roster(), and run() up to line 38 *)
RunStart(c) ==
    /\ Loaded(RosterA)
    /\ IdleMate /\ NoCall
    /\ num_lineups = c[1] /\ duration = c[2]
    /\ lineups = <<>>
    /\ new_lineups = <<>>
    /\ rounds = 0
    /\ best_dropped = -1
    /\ csv_lineups = <<>>
    /\ csv_upload = <<>>
    /\ pc = "run"
    /\ candidate = <<>>
    /\ result = NoResult
    /\ depth = 0

InitRun == \E c \in Configs : RunStart(c)

InitRunLarge == RunStart(LargeConfig)

NextRun ==
    \/ RunLoop \/ GetBatch \/ Mate1 \/ Mate2 \/ Mate3
    \/ Fresh1 \/ Fresh2 \/ Fresh3 \/ Fresh4
    \/ RunRecursionError
    \/ SortTruncate \/ SaveFile \/ SaveFileIndexError

SpecRun == InitRun /\ [][NextRun]_vars

SpecRunLarge == InitRunLarge /\ [][NextRun]_vars


----------------------------------------------------------------------------
(* Properties.  The three rules are written out here as the               *)
(* specification words them, apart from check_valid's definitions.         *)

Nine(l) == SubSeq(l, 1, 9)

SalarySum(l) == SumSeq([i \in 1..9 |-> l[i].salary])
PointsSum(l) == SumSeq([i \in 1..9 |-> l[i].avePoints])

MeetsRules(l) ==
    /\ SalarySum(l) < 50000
    /\ Cardinality({l[i].teamAbbrev : i \in 1..9}) >= 3
    /\ Cardinality({l[i].name : i \in 1..9}) = 9

(* A validated lineup: nine players that meet the rules, then their salary *)
(* sum, then their points sum to the nearest hundredth.                    *)
ValidatedLineup(l) ==
    /\ Len(l) = 11
    /\ \A i \in 1..9 : IsPlayer(l[i])
    /\ MeetsRules(l)
    /\ l[10] = Num(SalarySum(l))
    /\ ~IsPlayer(l[11])
    /\ 10 * l[11].num - 5 < 2 * PointsSum(l)
    /\ 2 * PointsSum(l) < 10 * l[11].num + 5

(* C1: every lineup stored in the population has nine players whose        *)
(* salaries sum to less than 50000, who come from at least three teams and *)
(* are nine distinct players, followed by that salary sum and by their     *)
(* projected-points sum (to two decimals).                                 *)
C1_PopulationValid ==
    \A i \in 1..Len(lineups) : ValidatedLineup(lineups[i])

(* A round has appended its three best, three children (the last one       *)
(* unlike its parents) and four fresh lineups.                             *)
C1_Witness ==
    /\ pc = "sort"
    /\ Len(lineups) >= 10
    /\ lineups[Len(lineups) - 4] \notin Range(new_lineups)

(* C2 as stated: at every check of the deadline the population holds ten   *)
(* lineups per completed round, nothing having been cut between rounds.    *)
C2_Original ==
    pc = "run" => Len(lineups) = 10 * rounds

(* Lineups the current get_lineups call has appended so far *)
AppendedThisRound ==
    CASE pc = "mate_1"  -> 3
      [] pc = "mate_2"  -> 4
      [] pc = "mate_3"  -> 5
      [] pc = "fresh_1" -> 6
      [] pc = "fresh_2" -> 7
      [] pc = "fresh_3" -> 8
      [] pc = "fresh_4" -> 9
      [] pc = "sort"    -> 10
      [] OTHER          -> 0

(* C2 as amended: every get_lineups call that ends appends ten lineups,    *)
(* and the population is sorted and cut to num_lineups at the end of every *)
(* round: after k completed rounds it holds min(num_lineups, 10k) lineups, *)
(* plus what the round in progress has appended (none, or three to nine,   *)
(* when that round ended in RecursionError); nothing is cut after the      *)
(* loop.                                                                   *)
C2_Amended ==
    IF pc = "RecursionError"
    THEN Len(lineups) - Min(num_lineups, 10 * rounds) \in {0} \cup 3..9
    ELSE Len(lineups) = Min(num_lineups, 10 * rounds) + AppendedThisRound

(* A second round has ended and the population is back to num_lineups *)
C2_Witness ==
    /\ pc = "run"
    /\ rounds = 2
    /\ num_lineups = 2
    /\ Len(lineups) = 2

(* C3: when run() returns after R rounds the population holds              *)
(* min(num_lineups, 10R) lineups in order of non-increasing score, and no  *)
(* lineup that was cut off in any round scores more than one that is kept. *)
C3_FinalTopN ==
    pc = "run_returned" =>
        /\ Len(lineups) = Min(num_lineups, 10 * rounds)
        /\ \A i \in 1..Len(lineups) - 1 :
              Score(lineups[i]) >= Score(lineups[i + 1])
        /\ \A i \in 1..Len(lineups) : Score(lineups[i]) >= best_dropped

(* run() has returned after two rounds with two lineups of different       *)
(* scores, other lineups having been cut off.                              *)
C3_Witness ==
    /\ pc = "run_returned"
    /\ rounds = 2
    /\ Len(lineups) = 2
    /\ best_dropped >= 0
    /\ Score(lineups[1]) > Score(lineups[2])

PlayersOf(l) == Range(Nine(l))

(* The extra random player of each of the five lists as built *)
ExtrasOf(pos) ==
    {pos.centers[5], pos.wingers[7], pos.defencemen[5], pos.goalies[3],
     pos.utils[3]}

(* C4: every player of a candidate that mate_lineups forms, and so of the  *)
(* child it returns, is a player of parent1, of parent2, or one of the     *)
(* five extra random players of that attempt.                              *)
C4_ChildSources ==
    [][/\ (pc = "mate_grab" /\ pc' = "mate_check") =>
            Range(candidate') \subseteq
                PlayersOf(lineup1) \cup PlayersOf(lineup2) \cup ExtrasOf(positions)
       /\ (pc = "mate_check" /\ pc' = "mate_returned") =>
            /\ result'.ret = "lineup"
            /\ Nine(result'.lineup) = candidate]_vars

(* A child has been returned that holds a player of neither parent *)
C4_Witness ==
    /\ pc = "mate_returned"
    /\ \E i \in 1..9 :
          result.lineup[i] \notin PlayersOf(lineup1) \cup PlayersOf(lineup2)

(* C5 as stated: check_valid, given the list it returned, accepts it again *)
(* with the same cost and score.                                           *)
C5_Original ==
    pc = "checked_returned" =>
        /\ result.ret = "lineup"
        /\ Cost(result.lineup) = Cost(accepted)
        /\ Score(result.lineup) = Score(accepted)

(* C5 as amended: check_valid, given the nine players of a list it         *)
(* returned, returns the same eleven entries again; given the whole list   *)
(* it returned, it raises TypeError on the two trailing numbers.           *)
C5_Amended ==
    /\ pc = "checked_players" =>
          /\ result.ret = "lineup"
          /\ result.lineup = accepted
          /\ Cost(result.lineup) = SalarySum(accepted)
    /\ pc = "checked_returned" => result.ret = "TypeError"

C5_Witness ==
    /\ pc = "checked_players"
    /\ result.ret = "lineup"
    /\ Len(accepted) = 11

PoolPlayers ==
    Range(centers) \cup Range(wingers) \cup Range(defencemen)
        \cup Range(goalies) \cup Range(utils)

OneTeamPool == Cardinality({p.teamAbbrev : p \in PoolPlayers}) = 1

(* C6: with a pool of a single team code generate_lineup never returns a   *)
(* lineup: every candidate it submits is rejected, and the retrying never  *)
(* ends.                                                                   *)
C6_NeverReturns ==
    OneTeamPool =>
        /\ pc \notin {"generate_returned", "RecursionError"}
        /\ result = NoResult
        /\ pc = "generate_check" => check_valid(candidate).ret = "False"

(* The pool C7 describes *)
ClaimedPool ==
    /\ Cardinality({p.teamAbbrev : p \in PoolPlayers}) >= 3
    /\ Len(centers) >= 3 /\ Len(wingers) >= 3
    /\ Len(defencemen) >= 3 /\ Len(goalies) >= 3
    /\ \E d \in Draws : SalarySum(GenCandidate(d)) < 50000

(* C7: from a pool with three team codes, three players in each role and   *)
(* some nine slots under the cap, generate_lineup goes on drawing until it *)
(* returns, never ending otherwise, and what it returns meets the three    *)
(* rules.                                                                  *)
C7_ReturnsValid ==
    /\ pc = "RecursionError" => ~ClaimedPool
    /\ pc = "generate_returned" =>
          result.ret = "lineup" /\ ValidatedLineup(result.lineup)

(* C8 as stated: no candidate submitted to check_valid holds a player in   *)
(* two slots of one role group.                                            *)
C8_Original ==
    pc = "mate_check" =>
        /\ Cardinality({candidate[i] : i \in 1..2}) = 2
        /\ Cardinality({candidate[i] : i \in 3..5}) = 3
        /\ Cardinality({candidate[i] : i \in 6..7}) = 2

Count(s, x) == Cardinality({i \in 1..Len(s) : s[i] = x})

NoMoreThanListed(group, list) ==
    \A x \in Range(group) : Count(group, x) <= Count(list, x)

(* C8 as amended: no entry of a role's list is drawn twice, so a player    *)
(* fills two slots of a role group only when the list holds the player     *)
(* more than once (the parents share the player, or the extra player is    *)
(* one of theirs); such a candidate is submitted, and no child that is     *)
(* returned holds a player twice.                                          *)
C8_Amended ==
    /\ [][(pc = "mate_grab" /\ pc' = "mate_check") =>
            /\ NoMoreThanListed(SubSeq(candidate', 1, 2), positions.centers)
            /\ NoMoreThanListed(SubSeq(candidate', 3, 5), positions.wingers)
            /\ NoMoreThanListed(SubSeq(candidate', 6, 7), positions.defencemen)
            /\ NoMoreThanListed(SubSeq(candidate', 8, 8), positions.goalies)
            /\ NoMoreThanListed(SubSeq(candidate', 9, 9), positions.utils)]_vars
    /\ [](pc = "mate_returned" =>
            Cardinality(PlayersOf(result.lineup)) = 9)

(* A candidate with one center in both center slots has been submitted *)
C8_Witness ==
    /\ pc = "mate_check"
    /\ candidate[1] = candidate[2]
    /\ candidate[1] \in {lineup1[1], lineup1[2]} \cap {lineup2[1], lineup2[2]}

SlotOrder(l) ==
    /\ \A i \in 1..2 : l[i] \in Range(centers)
    /\ \A i \in 3..5 : l[i] \in Range(wingers)
    /\ \A i \in 6..7 : l[i] \in Range(defencemen)
    /\ l[8] \in Range(goalies)
    /\ l[9] \in Range(utils) /\ l[9].position # "G"

(* C9: every lineup of the population holds two centers, three wingers,    *)
(* two defencemen, a goalie and a non-goalie utility player, in that       *)
(* order; so does every child, its parents being lineups of this shape.    *)
C9_SlotOrder ==
    /\ \A i \in 1..Len(lineups) : SlotOrder(lineups[i])
    /\ \A i \in 1..Len(new_lineups) : SlotOrder(new_lineups[i])

(* In a second round a child unlike its parents has just been appended *)
C9_Witness ==
    /\ pc = "fresh_1"
    /\ rounds = 1
    /\ lineups[Len(lineups)] \notin Range(new_lineups)
    /\ Nine(lineups[Len(lineups)])[1] \notin
          {new_lineups[2][1], new_lineups[2][2], new_lineups[3][1], new_lineups[3][2]}

(* C10: save_file never fails, and the rows of the full-lineups file are   *)
(* the lineups of the final population, one row each, in order.            *)
C10_AllRowsWritten ==
    /\ pc # "IndexError"
    /\ pc = "saved" => csv_lineups = NameRows(lineups)

=============================================================================
